---- MODULE Spec2Model ----
(***************************************************************************)
(* Model of sodasql/scan/scan.py: one Scan object and one call of          *)
(* Scan.execute().  The warehouse, the dialect, the scan configuration and *)
(* the reporting client are the scan's collaborators; their replies are    *)
(* the inputs of the model.  sample_percentage is not configured, so       *)
(* table_sample_clause is None and every query reads the whole table.      *)
(***************************************************************************)
EXTENDS Integers, Sequences, FiniteSets, TLC

\* ---------------------------------------------------------------- bounds
MaxCols == 2
MaxRows == 3
MinsMaxsLimit == 1
FrequentValuesLimit == 1

\* ---------------------------------------------------------------- values
\* A table cell: 0 is NULL (a missing value); 3 is a value that fails the
\* column's validity rule when the column has one; 1 and 2 are valid values.
Cells == 0 .. 3

\* Measurement values, one record shape for all of Python's value kinds.
NoneV == [kind |-> "none", n |-> 0, d |-> 1, l |-> <<>>]
IntV(n) == [kind |-> "int", n |-> n, d |-> 1, l |-> <<>>]
\* The float n / d of Python's true division, kept exact.
FloatV(n, d) == [kind |-> "float", n |-> n, d |-> d, l |-> <<>>]
ListV(l) == [kind |-> "list", n |-> 0, d |-> 1, l |-> l]

Measurement(metric, column_name, value) ==
  [metric |-> metric, column_name |-> column_name, value |-> value]

\* Column names are 1 .. Len(columns); 0 stands for "no column" (None).
NoColumn == 0

GroupByMetrics == {"distinct", "uniqueness", "unique_count", "mins", "maxs", "frequent_values"}
UniquenessMetrics == {"distinct", "uniqueness", "unique_count"}

\* ------------------------------------------------- scan configuration
\* A test "<metric> < <bound>" of a column: the only metric name its text
\* contains, and the bound.
Test(metric, bound) == [metric |-> metric, bound |-> bound]

\* validity: the column has a validity rule (column_cache.validity is not None).
ColumnConfig(type, metrics, missing, validity, format, tests) ==
  [type |-> type, metrics |-> metrics, is_missing_metric_enabled |-> missing,
   validity |-> validity, is_validity_metric_enabled |-> validity,
   validity_format |-> format, tests |-> tests]

\* The configurations a column is drawn from (declared type included).
ColumnKinds ==
  { ColumnConfig("number", {"min", "max", "avg", "sum"}, TRUE, TRUE, "none",
                 <<Test("missing_count", 1), Test("max", 3)>>),
    ColumnConfig("text", {"min_length", "max_length", "min", "max", "avg", "sum",
                          "distinct", "mins", "maxs", "frequent_values"},
                 FALSE, TRUE, "number_whole", <<>>),
    ColumnConfig("number", {"distinct", "uniqueness", "mins"}, FALSE, FALSE, "none", <<>>),
    ColumnConfig("text", {"unique_count", "maxs"}, FALSE, FALSE, "none", <<>>),
    ColumnConfig("other", {}, TRUE, FALSE, "none",
                 <<Test("max", 3), Test("missing_count", 1)>>) }

\* Sorted row lists: the aggregates do not depend on the order of the rows.
Tables ==
  { t \in UNION { [1 .. r -> Cells] : r \in 0 .. MaxRows } :
      \A i \in 1 .. Len(t) - 1 : t[i] <= t[i + 1] }

VARIABLES
  warehouse_name,     \* warehouse.name is set
  table_name,         \* scan_configuration.table_name is set
  soda_client,        \* a reporting client was given
  config,             \* scan_configuration.columns: column name -> configuration
  table,              \* the rows of the table (every column holds the same cells)
  pc,                 \* position of execute()
  error,              \* the exception that ended execute(), or "none"
  failed_in,          \* the stage the exception was raised in
  columns,            \* self.columns
  column_caches,      \* self.column_caches
  cache_writes,       \* the assignments to ColumnCache fields made so far
  fields,             \* query_aggregations: fields
  measurements,       \* query_aggregations: measurements
  group_measurements, \* query_group_by_value: measurements
  column_metric_indices,
  query_result_tuple, \* the row the aggregation query returned
  col,                \* the loop variable of the per-column loops
  scan_result,        \* self.scan_result: measurements and test_results
  test_results,       \* run_tests: test_results
  received,           \* the batches soda_client.send_measurements was given
  log                 \* the stages, queries, appends and sends, in order

vars == <<warehouse_name, table_name, soda_client, config, table, pc, error, failed_in,
          columns, column_caches, cache_writes, fields, measurements,
          group_measurements, column_metric_indices, query_result_tuple, col,
          scan_result, test_results, received, log>>

inputs == <<warehouse_name, table_name, soda_client, config, table>>

Event(ev, stage, column, what) == [ev |-> ev, stage |-> stage, col |-> column, what |-> what]

\* ------------------------------------------------------------ the dialect
is_text(column) == column.type = "text"
is_number(column) == column.type = "number"

\* ------------------------------------------------- the scan configuration
is_metric_enabled(column_name, metric) == metric \in config[column_name].metrics
is_any_metric_enabled(column_name, metrics) == config[column_name].metrics \cap metrics # {}
get_validity_format(column) == config[column.name].validity_format

\* ---------------------------------------------------------- the warehouse
\* What the generated SQL computes on the table.
missing_condition(cell) == cell = 0
non_missing_and_valid_condition(column_name, cell) ==
  cell # 0 /\ (config[column_name].validity => cell # 3)

RECURSIVE SumCells(_, _)
SumCells(t, rows) ==
  IF rows = {} THEN 0
  ELSE LET i == CHOOSE j \in rows : TRUE IN t[i] + SumCells(t, rows \ {i})

MinOf(S) == CHOOSE x \in S : \A y \in S : x <= y
MaxOf(S) == CHOOSE x \in S : \A y \in S : x >= y

\* The rows an aggregate's argument is non-NULL on.
ArgRows(field) ==
  CASE field.arg = "column" -> { i \in 1 .. Len(table) : table[i] # 0 }
    [] OTHER -> { i \in 1 .. Len(table) : non_missing_and_valid_condition(field.col, table[i]) }

\* One cell of the row the aggregation query returns.
EvalField(field) ==
  LET rows == ArgRows(field)
      vals == { table[i] : i \in rows }
  IN CASE field.expr = "count_all" -> IntV(Len(table))
       [] field.expr = "count_missing" ->
            IntV(Cardinality({ i \in 1 .. Len(table) : missing_condition(table[i]) }))
       [] field.expr = "count_valid" -> IntV(Cardinality(rows))
       [] field.expr \in {"min_length", "max_length"} ->
            IF rows = {} THEN NoneV ELSE IntV(1)
       [] field.expr = "min" -> IF rows = {} THEN NoneV ELSE IntV(MinOf(vals))
       [] field.expr = "max" -> IF rows = {} THEN NoneV ELSE IntV(MaxOf(vals))
       [] field.expr = "sum" -> IF rows = {} THEN NoneV ELSE IntV(SumCells(table, rows))
       [] field.expr = "avg" ->
            IF rows = {} THEN NoneV ELSE FloatV(SumCells(table, rows), Cardinality(rows))

\* group_by_value: the valid, non-missing values and their frequencies.
GroupValues(column_name) ==
  { table[i] : i \in { j \in 1 .. Len(table) :
                         non_missing_and_valid_condition(column_name, table[j]) } }
Frequency(column_name, value) ==
  Cardinality({ i \in 1 .. Len(table) : table[i] = value })

RECURSIVE SortedAsc(_)
SortedAsc(S) == IF S = {} THEN <<>> ELSE <<MinOf(S)>> \o SortedAsc(S \ {MinOf(S)})
RECURSIVE SortedDesc(_)
SortedDesc(S) == IF S = {} THEN <<>> ELSE <<MaxOf(S)>> \o SortedDesc(S \ {MaxOf(S)})

Limit(s, n) == SubSeq(s, 1, IF Len(s) < n THEN Len(s) ELSE n)

\* ORDER BY frequency DESC LIMIT n: the warehouse breaks ties as it likes.
FrequentValues(column_name, n) ==
  LET G == GroupValues(column_name)
      k == IF Cardinality(G) < n THEN Cardinality(G) ELSE n
  IN { s \in [1 .. k -> G] :
         /\ \A i, j \in 1 .. k : i # j => s[i] # s[j]
         /\ \A i \in 1 .. k - 1 :
              Frequency(column_name, s[i]) >= Frequency(column_name, s[i + 1])
         /\ \A v \in G : (\A i \in 1 .. k : s[i] # v) =>
              \A i \in 1 .. k : Frequency(column_name, s[i]) >= Frequency(column_name, v) }

\* ------------------------------------------------------------- Scan
Column(name, type, nullable) == [name |-> name, type |-> type, nullable |-> nullable]

\* ScanColumnCache(scan_configuration, column, dialect)
ScanColumnCache(column) ==
  [is_text |-> is_text(column),
   is_number |-> is_number(column),
   validity_format |-> IF is_text(column) THEN get_validity_format(column) ELSE "none",
   is_column_numeric_text_format |->
     is_text(column) /\ get_validity_format(column) = "number_whole",
   validity |-> config[column.name].validity,
   is_validity_metric_enabled |-> config[column.name].is_validity_metric_enabled,
   is_missing_metric_enabled |-> config[column.name].is_missing_metric_enabled]

Init ==
  /\ warehouse_name \in BOOLEAN
  /\ table_name \in BOOLEAN
  /\ soda_client \in BOOLEAN
  /\ config \in UNION { [1 .. n -> ColumnKinds] : n \in 0 .. MaxCols }
  /\ table \in Tables
  /\ pc = "require"
  /\ error = "none"
  /\ failed_in = "none"
  /\ columns = <<>>
  /\ column_caches = <<>>
  /\ cache_writes = {}
  /\ fields = <<>>
  /\ measurements = <<>>
  /\ group_measurements = <<>>
  /\ column_metric_indices = <<>>
  /\ query_result_tuple = <<>>
  /\ col = 0
  /\ scan_result = [measurements |-> <<>>, test_results |-> <<>>]
  /\ test_results = <<>>
  /\ received = <<>>
  /\ log = <<>>

\* An exception leaves execute(): nothing after the raising statement runs.
Raise(stage, exception) ==
  /\ pc' = "failed"
  /\ error' = exception
  /\ failed_in' = stage

\* add_measurements without the guard on an empty list.
add_measurements_unguarded(stage, ms, log0) ==
  /\ scan_result' = [scan_result EXCEPT !.measurements = @ \o ms]
  /\ IF soda_client
     THEN /\ received' = Append(received, ms)
          /\ log' = log0 \o <<Event("append", stage, NoColumn, "batch"),
                              Event("send", stage, NoColumn, "batch")>>
     ELSE /\ received' = received
          /\ log' = log0 \o <<Event("append", stage, NoColumn, "batch")>>

\* add_measurements, after the events in log0.
add_measurements(stage, ms, log0) ==
  IF ms # <<>>
  THEN /\ scan_result' = [scan_result EXCEPT !.measurements = @ \o ms]
       /\ IF soda_client
          THEN /\ received' = Append(received, ms)
               /\ log' = log0 \o <<Event("append", stage, NoColumn, "batch"),
                                   Event("send", stage, NoColumn, "batch")>>
          ELSE /\ received' = received
               /\ log' = log0 \o <<Event("append", stage, NoColumn, "batch")>>
  ELSE /\ scan_result' = scan_result
       /\ received' = received
       /\ log' = log0

\* RequireNames without the assertion on the table name.
RequireNamesNoTableAssert ==
  /\ pc = "require"
  /\ log' = Append(log, Event("stage", "require", NoColumn, "start"))
  /\ IF warehouse_name
     THEN pc' = "discover" /\ UNCHANGED <<error, failed_in>>
     ELSE Raise("require", "AssertionError")
  /\ UNCHANGED <<inputs, columns, column_caches, cache_writes, fields, measurements,
                 group_measurements, column_metric_indices, query_result_tuple, col,
                 scan_result, test_results, received>>

\* execute: the two assertions.
RequireNames ==
  /\ pc = "require"
  /\ log' = Append(log, Event("stage", "require", NoColumn, "start"))
  /\ IF warehouse_name /\ table_name
     THEN pc' = "discover" /\ UNCHANGED <<error, failed_in>>
     ELSE Raise("require", "AssertionError")
  /\ UNCHANGED <<inputs, columns, column_caches, cache_writes, fields, measurements,
                 group_measurements, column_metric_indices, query_result_tuple, col, scan_result,
                 test_results, received>>

\* query_columns: the column tuples the warehouse returns, as Columns.
query_columns == [i \in 1 .. Len(config) |-> Column(i, config[i].type, TRUE)]

\* execute: self.columns = self.query_columns(), and the schema measurement.
DiscoverSchema ==
  /\ pc = "discover"
  /\ LET log0 == log \o <<Event("stage", "discover", NoColumn, "start"),
                          Event("query", "discover", NoColumn, "columns")>>
     IN \/ /\ columns' = query_columns
           /\ add_measurements("discover",
                <<Measurement("schema", NoColumn,
                              ListV([i \in 1 .. Len(query_columns) |-> i]))>>, log0)
           /\ pc' = "cache"
           /\ UNCHANGED <<error, failed_in>>
        \/ /\ Raise("discover", "QueryError")
           /\ log' = log0
           /\ UNCHANGED <<columns, scan_result, received>>
  /\ UNCHANGED <<inputs, column_caches, cache_writes, fields, measurements,
                 group_measurements, column_metric_indices, query_result_tuple, col, test_results>>

\* execute: self.column_caches = {column.name: ScanColumnCache(...) ...}
BuildColumnCaches ==
  /\ pc = "cache"
  /\ column_caches' = [c \in 1 .. Len(columns) |-> ScanColumnCache(columns[c])]
  /\ log' = Append(log, Event("stage", "cache", NoColumn, "start"))
  /\ pc' = "agg_start"
  /\ UNCHANGED <<inputs, error, failed_in, columns, cache_writes, fields, measurements,
                 group_measurements, column_metric_indices, query_result_tuple, col, scan_result,
                 test_results, received>>

\* ------------------------------------------------- query_aggregations
Field(expr, column_name, arg) == [expr |-> expr, col |-> column_name, arg |-> arg]

\* isinstance(validity_format, str) and validity_format.startswith('number_')
is_numeric_text_format(validity_format) == validity_format \in {"number_whole"}

is_valid_enabled(column_name, cache) ==
  \/ cache.validity /\ cache.is_validity_metric_enabled
  \/ is_any_metric_enabled(column_name, {"distinct", "uniqueness"})

is_missing_enabled(column_name, cache) ==
  is_valid_enabled(column_name, cache) \/ cache.is_missing_metric_enabled

\* CacheFieldsWritten with query_group_by_value caching the validity format.
CacheFieldsWrittenByGroupBy(stage, column) ==
  IF stage = "aggregate"
  THEN {"is_text", "is_number"} \cup
       (IF is_text(column) THEN {"validity_format", "is_column_numeric_text_format"} ELSE {})
  ELSE IF stage = "group_by" THEN {"validity_format"} ELSE {}

\* The ColumnCache fields a stage assigns for one column.
CacheFieldsWritten(stage, column) ==
  IF stage = "aggregate"
  THEN {"is_text", "is_number"} \cup
       (IF is_text(column) THEN {"validity_format", "is_column_numeric_text_format"} ELSE {})
  ELSE {}

CacheWrites(stage, column) ==
  { [stage |-> stage, col |-> column.name, field |-> f] :
      f \in CacheFieldsWritten(stage, column) }

\* The column's cache after the loop body's assignments.
AssignedCache(column) ==
  LET c1 == [column_caches[column.name] EXCEPT !.is_text = is_text(column),
                                               !.is_number = is_number(column)]
  IN IF c1.is_text
     THEN [c1 EXCEPT !.validity_format = get_validity_format(column),
                     !.is_column_numeric_text_format =
                        is_numeric_text_format(get_validity_format(column))]
     ELSE c1

Opt(cond, x) == IF cond THEN <<x>> ELSE <<>>

\* ColumnFields with the max expression appended before the min expression.
ColumnFieldsMaxFirst(c, cache) ==
  LET numeric_arg == IF cache.is_number THEN "column" ELSE "cast_valid"
  IN Opt(is_missing_enabled(c, cache), Field("count_missing", c, "missing_condition"))
     \o Opt(is_valid_enabled(c, cache), Field("count_valid", c, "valid_condition"))
     \o (IF cache.is_text
         THEN Opt(is_metric_enabled(c, "min_length"), Field("min_length", c, "length_valid"))
              \o Opt(is_metric_enabled(c, "max_length"), Field("max_length", c, "length_valid"))
         ELSE <<>>)
     \o (IF cache.is_number \/ cache.is_column_numeric_text_format
         THEN Opt(is_metric_enabled(c, "max"), Field("max", c, numeric_arg))
              \o Opt(is_metric_enabled(c, "min"), Field("min", c, numeric_arg))
              \o Opt(is_metric_enabled(c, "avg"), Field("avg", c, numeric_arg))
              \o Opt(is_metric_enabled(c, "sum"), Field("sum", c, numeric_arg))
         ELSE <<>>)

\* The fields.append calls of one pass of the column loop, in order.
ColumnFields(c, cache) ==
  LET numeric_arg == IF cache.is_number THEN "column" ELSE "cast_valid"
  IN Opt(is_missing_enabled(c, cache), Field("count_missing", c, "missing_condition"))
     \o Opt(is_valid_enabled(c, cache), Field("count_valid", c, "valid_condition"))
     \o (IF cache.is_text
         THEN Opt(is_metric_enabled(c, "min_length"), Field("min_length", c, "length_valid"))
              \o Opt(is_metric_enabled(c, "max_length"), Field("max_length", c, "length_valid"))
         ELSE <<>>)
     \o (IF cache.is_number \/ cache.is_column_numeric_text_format
         THEN Opt(is_metric_enabled(c, "min"), Field("min", c, numeric_arg))
              \o Opt(is_metric_enabled(c, "max"), Field("max", c, numeric_arg))
              \o Opt(is_metric_enabled(c, "avg"), Field("avg", c, numeric_arg))
              \o Opt(is_metric_enabled(c, "sum"), Field("sum", c, numeric_arg))
         ELSE <<>>)

\* The measurements.append calls of one pass of the column loop, in order.
ColumnMeasurements(c, cache) ==
  Opt(is_missing_enabled(c, cache), Measurement("missing_count", c, NoneV))
  \o Opt(is_valid_enabled(c, cache), Measurement("valid_count", c, NoneV))
  \o (IF cache.is_text
      THEN Opt(is_metric_enabled(c, "min_length"), Measurement("min_length", c, NoneV))
           \o Opt(is_metric_enabled(c, "max_length"), Measurement("max_length", c, NoneV))
      ELSE <<>>)
  \o (IF cache.is_number \/ cache.is_column_numeric_text_format
      THEN Opt(is_metric_enabled(c, "min"), Measurement("min", c, NoneV))
           \o Opt(is_metric_enabled(c, "max"), Measurement("max", c, NoneV))
           \o Opt(is_metric_enabled(c, "avg"), Measurement("avg", c, NoneV))
           \o Opt(is_metric_enabled(c, "sum"), Measurement("sum", c, NoneV))
      ELSE <<>>)

\* metric_indices of one column: Python (0-based) indices into measurements.
MetricIndices(c, cache, length) ==
  IF is_valid_enabled(c, cache)
  THEN [k \in {"missing", "valid"} |-> IF k = "missing" THEN length ELSE length + 1]
  ELSE IF is_missing_enabled(c, cache)
       THEN [k \in {"missing"} |-> length]
       ELSE [k \in {} |-> length]

\* query_aggregations up to the column loop: the row count pair.
AggStart ==
  /\ pc = "agg_start"
  /\ fields' = <<Field("count_all", NoColumn, "all")>>
  /\ measurements' = <<Measurement("row_count", NoColumn, NoneV)>>
  /\ column_metric_indices' = <<>>
  /\ col' = 1
  /\ log' = Append(log, Event("stage", "aggregate", NoColumn, "start"))
  /\ pc' = "agg_column"
  /\ UNCHANGED <<inputs, error, failed_in, columns, column_caches, cache_writes,
                 group_measurements, query_result_tuple, scan_result, test_results,
                 received>>

\* One pass of the first column loop of query_aggregations.
AggColumn ==
  /\ pc = "agg_column"
  /\ col <= Len(columns)
  /\ LET column == columns[col]
         cache == AssignedCache(column)
     IN /\ column_caches' = [column_caches EXCEPT ![col] = cache]
        /\ cache_writes' = cache_writes \cup CacheWrites("aggregate", column)
        /\ column_metric_indices' =
             Append(column_metric_indices, MetricIndices(col, cache, Len(measurements)))
        /\ fields' = fields \o ColumnFields(col, cache)
        /\ measurements' = measurements \o ColumnMeasurements(col, cache)
  /\ col' = col + 1
  /\ UNCHANGED <<inputs, pc, error, failed_in, columns, group_measurements,
                 query_result_tuple, scan_result, test_results, received, log>>

\* The one aggregation query, and the positional assignment of its result.
AggExecute ==
  /\ pc = "agg_column"
  /\ col > Len(columns)
  /\ LET log0 == Append(log, Event("query", "aggregate", NoColumn, "aggregation"))
         result == [i \in 1 .. Len(fields) |-> EvalField(fields[i])]
     IN /\ log' = log0
        /\ \/ /\ Len(measurements) <= Len(result)
              /\ query_result_tuple' = result
              /\ measurements' = [i \in 1 .. Len(measurements) |->
                                    [measurements[i] EXCEPT !.value = result[i]]]
              /\ pc' = "agg_derive"
              /\ UNCHANGED <<error, failed_in>>
           \/ /\ Len(measurements) > Len(result)
              /\ Raise("aggregate", "IndexError")
              /\ UNCHANGED <<query_result_tuple, measurements>>
           \/ /\ Raise("aggregate", "QueryError")
              /\ UNCHANGED <<query_result_tuple, measurements>>
  /\ UNCHANGED <<inputs, columns, column_caches, cache_writes, fields,
                 group_measurements, column_metric_indices, col, scan_result,
                 test_results, received>>

\* DerivedOf with invalid_count = row_count - valid_count.
DerivedOfIgnoringMissing(c, ms, indices) ==
  LET row_count == ms[1].value.n
      missing_count == ms[indices["missing"] + 1].value.n
      values_count == row_count - missing_count
      valid_count == ms[indices["valid"] + 1].value.n
      invalid_count == row_count - valid_count
  IN IF "missing" \notin DOMAIN indices THEN <<>>
     ELSE << Measurement("missing_percentage", c, FloatV(missing_count * 100, row_count)),
             Measurement("values_count", c, IntV(values_count)),
             Measurement("values_percentage", c, FloatV(values_count * 100, row_count)) >>
          \o (IF "valid" \notin DOMAIN indices THEN <<>>
              ELSE << Measurement("invalid_percentage", c, FloatV(invalid_count * 100, row_count)),
                      Measurement("invalid_count", c, IntV(invalid_count)),
                      Measurement("valid_percentage", c, FloatV(valid_count * 100, row_count)) >>)

\* The derived measurements of one column.
DerivedOf(c, ms, indices) ==
  LET row_count == ms[1].value.n
      missing_count == ms[indices["missing"] + 1].value.n
      values_count == row_count - missing_count
      valid_count == ms[indices["valid"] + 1].value.n
      invalid_count == row_count - missing_count - valid_count
  IN IF "missing" \notin DOMAIN indices THEN <<>>
     ELSE << Measurement("missing_percentage", c, FloatV(missing_count * 100, row_count)),
             Measurement("values_count", c, IntV(values_count)),
             Measurement("values_percentage", c, FloatV(values_count * 100, row_count)) >>
          \o (IF "valid" \notin DOMAIN indices THEN <<>>
              ELSE << Measurement("invalid_percentage", c, FloatV(invalid_count * 100, row_count)),
                      Measurement("invalid_count", c, IntV(invalid_count)),
                      Measurement("valid_percentage", c, FloatV(valid_count * 100, row_count)) >>)

RECURSIVE DerivedMeasurements(_, _, _)
DerivedMeasurements(c, ms, all_indices) ==
  IF c > Len(all_indices) THEN <<>>
  ELSE DerivedOf(c, ms, all_indices[c]) \o DerivedMeasurements(c + 1, ms, all_indices)

\* Some division of the derived pass has a zero divisor.
DerivedDividesByZero(ms, all_indices) ==
  /\ ms[1].value.n = 0
  /\ \E c \in 1 .. Len(all_indices) : "missing" \in DOMAIN all_indices[c]

\* The derived pass, the return, and execute's add_measurements.
AggDerive ==
  /\ pc = "agg_derive"
  /\ IF DerivedDividesByZero(measurements, column_metric_indices)
     THEN /\ Raise("aggregate", "ZeroDivisionError")
          /\ UNCHANGED <<measurements, scan_result, received, log>>
     ELSE /\ measurements' = measurements
               \o DerivedMeasurements(1, measurements, column_metric_indices)
          /\ add_measurements("aggregate", measurements', log)
          /\ pc' = "group_start"
          /\ UNCHANGED <<error, failed_in>>
  /\ UNCHANGED <<inputs, columns, column_caches, cache_writes, fields,
                 group_measurements, column_metric_indices, query_result_tuple, col,
                 test_results>>

\* ------------------------------------------------- query_group_by_value
\* scan_result.get(metric, column_name): the value measured, None when absent.
ScanResultGet(metric, column_name) ==
  LET found == { i \in 1 .. Len(scan_result.measurements) :
                   /\ scan_result.measurements[i].metric = metric
                   /\ scan_result.measurements[i].column_name = column_name }
  IN IF found = {} THEN NoneV ELSE scan_result.measurements[MinOf(found)].value

\* Uniqueness as the plain ratio distinct_count * 100 / valid_count.
UniquenessUncorrected(distinct_count, valid_count) ==
  FloatV(distinct_count * 100, valid_count)

\* (distinct_count - 1) * 100 / (valid_count - 1)
Uniqueness(distinct_count, valid_count) ==
  FloatV((distinct_count - 1) * 100, valid_count - 1)

\* GroupByPlan with the mins query issued whether or not mins is enabled.
GroupByPlanAlwaysMins(c) ==
  LET cache == column_caches[c]
      numeric == cache.is_number \/ cache.is_column_numeric_text_format
  IN Opt(is_any_metric_enabled(c, UniquenessMetrics), "distinct")
     \o Opt(numeric, "mins")
     \o Opt(is_metric_enabled(c, "maxs") /\ numeric, "maxs")
     \o Opt(is_metric_enabled(c, "frequent_values") /\ numeric, "frequent_values")

\* The queries query_group_by_value issues for a column, in order.
GroupByPlan(c) ==
  LET cache == column_caches[c]
      numeric == cache.is_number \/ cache.is_column_numeric_text_format
  IN IF ~ is_any_metric_enabled(c, GroupByMetrics) THEN <<>>
     ELSE Opt(is_any_metric_enabled(c, UniquenessMetrics), "distinct")
          \o Opt(is_metric_enabled(c, "mins") /\ numeric, "mins")
          \o Opt(is_metric_enabled(c, "maxs") /\ numeric, "maxs")
          \o Opt(is_metric_enabled(c, "frequent_values") /\ numeric, "frequent_values")

\* What follows one query's reply: the measurements appended, and the exception.
GroupByStep(c, query, frequent) ==
  CASE query = "distinct" ->
         LET distinct_count == Cardinality(GroupValues(c))
             unique_count == Cardinality({ v \in GroupValues(c) : Frequency(c, v) = 1 })
             valid_count == ScanResultGet("valid_count", c)
             counted == << Measurement("distinct", c, IntV(distinct_count)),
                           Measurement("unique_count", c, IntV(unique_count)) >>
         IN IF valid_count.kind = "none"
            THEN [ms |-> counted, err |-> "TypeError"]
            ELSE IF valid_count.n = 1
                 THEN [ms |-> counted, err |-> "ZeroDivisionError"]
                 ELSE [ms |-> Append(counted, Measurement("uniqueness", c,
                                       Uniqueness(distinct_count, valid_count.n))),
                       err |-> "none"]
    [] query = "mins" ->
         [ms |-> << Measurement("mins", c,
                      ListV(Limit(SortedAsc(GroupValues(c)), MinsMaxsLimit))) >>,
          err |-> "none"]
    [] query = "maxs" ->
         [ms |-> << Measurement("maxs", c,
                      ListV(Limit(SortedDesc(GroupValues(c)), MinsMaxsLimit))) >>,
          err |-> "none"]
    [] query = "frequent_values" ->
         [ms |-> << Measurement("frequent_values", c, ListV(frequent)) >>,
          err |-> "none"]

\* The plan's queries from the i-th on; the warehouse fails the fail_at-th.
RECURSIVE RunGroupBy(_, _, _, _, _, _)
RunGroupBy(c, plan, i, fail_at, frequent, acc) ==
  IF i > Len(plan) THEN acc
  ELSE LET acc1 == [acc EXCEPT !.log = Append(@, Event("query", "group_by", c, plan[i]))]
           step == GroupByStep(c, plan[i], frequent)
       IN IF i = fail_at THEN [acc1 EXCEPT !.err = "QueryError"]
          ELSE IF step.err # "none"
               THEN [acc1 EXCEPT !.ms = @ \o step.ms, !.err = step.err]
               ELSE RunGroupBy(c, plan, i + 1, fail_at, frequent,
                               [acc1 EXCEPT !.ms = @ \o step.ms])

\* measurements = []
GroupByStart ==
  /\ pc = "group_start"
  /\ group_measurements' = <<>>
  /\ col' = 1
  /\ log' = Append(log, Event("stage", "group_by", NoColumn, "start"))
  /\ pc' = "group_column"
  /\ UNCHANGED <<inputs, error, failed_in, columns, column_caches, cache_writes, fields,
                 measurements, column_metric_indices, query_result_tuple, scan_result,
                 test_results, received>>

\* One pass of the column loop of query_group_by_value.
GroupByColumn ==
  /\ pc = "group_column"
  /\ col <= Len(columns)
  /\ \E fail_at \in 0 .. Len(GroupByPlan(col)),
        frequent \in FrequentValues(col, FrequentValuesLimit) :
       LET out == RunGroupBy(col, GroupByPlan(col), 1, fail_at, frequent,
                             [ms |-> group_measurements, log |-> log, err |-> "none"])
       IN /\ log' = out.log
          /\ group_measurements' = out.ms
          /\ IF out.err = "none"
             THEN col' = col + 1 /\ UNCHANGED <<pc, error, failed_in>>
             ELSE Raise("group_by", out.err) /\ col' = col
  /\ cache_writes' = cache_writes \cup CacheWrites("group_by", columns[col])
  /\ UNCHANGED <<inputs, columns, column_caches, fields, measurements,
                 column_metric_indices, query_result_tuple, scan_result, test_results,
                 received>>

\* return measurements, and execute's add_measurements.
GroupByReturn ==
  /\ pc = "group_column"
  /\ col > Len(columns)
  /\ add_measurements("group_by", group_measurements, log)
  /\ pc' = "run_tests"
  /\ UNCHANGED <<inputs, error, failed_in, columns, column_caches, cache_writes, fields,
                 measurements, group_measurements, column_metric_indices,
                 query_result_tuple, col, test_results>>

\* ------------------------------------------------------------ run_tests
TestResult(passed, test, values, column_name) ==
  [passed |-> passed, test |-> test, values |-> values, column_name |-> column_name]

\* column_measurement_values: the metrics measured for the column.
MeasuredMetrics(column_name) ==
  { scan_result.measurements[i].metric :
      i \in { j \in 1 .. Len(scan_result.measurements) :
                scan_result.measurements[j].column_name = column_name } }

\* column_measurement_values[metric]: the last measurement wins.
MeasuredValue(column_name, metric) ==
  LET found == { i \in 1 .. Len(scan_result.measurements) :
                   /\ scan_result.measurements[i].metric = metric
                   /\ scan_result.measurements[i].column_name = column_name }
  IN scan_result.measurements[MaxOf(found)].value

\* test_values, and eval(test, test_values) of one test.
EvalTest(column_name, test) ==
  LET bound == { m \in MeasuredMetrics(column_name) : m = test.metric }
      test_values == { [metric |-> m, value |-> MeasuredValue(column_name, m)] : m \in bound }
      value == MeasuredValue(column_name, test.metric)
  IN IF test.metric \notin bound THEN [err |-> "NameError", results |-> <<>>]
     ELSE IF value.kind \notin {"int", "float"} THEN [err |-> "TypeError", results |-> <<>>]
     ELSE [err |-> "none",
           results |-> << TestResult(value.n < test.bound * value.d, test,
                                     test_values, column_name) >>]

\* The tests of the columns from column_name on, from the i-th test of the first.
RECURSIVE RunTestsFrom(_, _, _)
RunTestsFrom(column_name, i, acc) ==
  IF column_name > Len(config) THEN acc
  ELSE IF i > Len(config[column_name].tests) THEN RunTestsFrom(column_name + 1, 1, acc)
  ELSE LET r == EvalTest(column_name, config[column_name].tests[i])
       IN IF r.err # "none" THEN [acc EXCEPT !.err = r.err]
          ELSE RunTestsFrom(column_name, i + 1, [acc EXCEPT !.results = @ \o r.results])

\* run_tests, the extension of scan_result.test_results, and the return.
RunTests ==
  /\ pc = "run_tests"
  /\ LET out == RunTestsFrom(1, 1, [err |-> "none", results |-> <<>>])
         log0 == Append(log, Event("stage", "tests", NoColumn, "start"))
     IN IF out.err = "none"
        THEN /\ test_results' = out.results
             /\ scan_result' = [scan_result EXCEPT !.test_results = @ \o out.results]
             /\ log' = Append(log0, Event("stage", "done", NoColumn, "return"))
             /\ pc' = "done"
             /\ UNCHANGED <<error, failed_in>>
        ELSE /\ Raise("tests", out.err)
             /\ test_results' = out.results
             /\ log' = log0
             /\ UNCHANGED scan_result
  /\ cache_writes' = cache_writes \cup
       UNION { CacheWrites("tests", columns[c]) : c \in 1 .. Len(columns) }
  /\ UNCHANGED <<inputs, columns, column_caches, fields, measurements,
                 group_measurements, column_metric_indices, query_result_tuple, col,
                 received>>

Next ==
  \/ RequireNames
  \/ DiscoverSchema
  \/ BuildColumnCaches
  \/ AggStart
  \/ AggColumn
  \/ AggExecute
  \/ AggDerive
  \/ GroupByStart
  \/ GroupByColumn
  \/ GroupByReturn
  \/ RunTests

Spec == Init /\ [][Next]_vars

\* ------------------------------------------------------------ properties
StageOrder == <<"require", "discover", "cache", "aggregate", "group_by", "tests", "done">>
StageNo(stage) == CHOOSE i \in 1 .. Len(StageOrder) : StageOrder[i] = stage

LogOf(ev) == SelectSeq(log, LAMBDA e : e.ev = ev)
LogIndices(ev) == { i \in 1 .. Len(log) : log[i].ev = ev }

RECURSIVE Flatten(_)
Flatten(batches) ==
  IF batches = <<>> THEN <<>> ELSE Head(batches) \o Flatten(Tail(batches))

\* The SQL expression that computes a metric.
ExprOfMetric(metric) ==
  CASE metric = "row_count" -> "count_all"
    [] metric = "missing_count" -> "count_missing"
    [] metric = "valid_count" -> "count_valid"
    [] OTHER -> metric

IsMeasured(metric, column_name) == metric \in MeasuredMetrics(column_name)

\* C1: fields and raw measurements grow in lock-step: the same length while
\* the query is assembled and when it is executed, field i the expression of
\* measurement i's metric and column, the pair at index 1 count-all and
\* ROW_COUNT, and after execution measurement i holds result cell i.
C1_LockStep ==
  fields # <<>> =>
    /\ Len(fields) <= Len(measurements)
    /\ (pc \in {"agg_column", "agg_derive"} \/ (pc = "failed" /\ failed_in = "aggregate"))
         => Len(fields) = Len(measurements)
    /\ fields[1].expr = "count_all" /\ measurements[1].metric = "row_count"
    /\ \A i \in 1 .. Len(fields) :
         /\ fields[i].expr = ExprOfMetric(measurements[i].metric)
         /\ fields[i].col = measurements[i].column_name
    /\ query_result_tuple # <<>> =>
         /\ Len(query_result_tuple) = Len(fields)
         /\ \A i \in 1 .. Len(fields) :
              /\ measurements[i].value = query_result_tuple[i]
              /\ measurements[i].value = EvalField(fields[i])

C1_Witness ==
  /\ pc = "agg_derive"
  /\ Len(columns) = 2
  /\ \E i, j \in 1 .. Len(fields) :
       /\ fields[i].col = 1 /\ fields[j].col = 2
       /\ fields[i].expr = "min" /\ fields[j].expr = "max"
       /\ measurements[i].value # measurements[j].value

\* C2: for a column with both a missing count and a valid count, the emitted
\* counts satisfy invalid + valid + missing = row_count and
\* values + missing = row_count.
C2_CountsAddUp ==
  \A c \in 1 .. Len(columns) :
    LET row_count == MeasuredValue(NoColumn, "row_count").n IN
    /\ IsMeasured("values_count", c) =>
         MeasuredValue(c, "values_count").n + MeasuredValue(c, "missing_count").n = row_count
    /\ IsMeasured("invalid_count", c) =>
         MeasuredValue(c, "invalid_count").n + MeasuredValue(c, "valid_count").n
           + MeasuredValue(c, "missing_count").n = row_count
    /\ (IsMeasured("missing_count", c) /\ IsMeasured("valid_count", c)) =>
         IsMeasured("invalid_count", c) /\ IsMeasured("values_count", c)

C2_Witness ==
  \E c \in 1 .. Len(columns) :
    /\ IsMeasured("invalid_count", c)
    /\ MeasuredValue(c, "invalid_count").n > 0
    /\ MeasuredValue(c, "missing_count").n > 0
    /\ MeasuredValue(c, "valid_count").n > 0

\* C3: when the group-by stage is about to derive uniqueness for a column (one
\* of DISTINCT, UNIQUENESS, UNIQUE_COUNT is enabled), the scan result holds a
\* VALID_COUNT measurement of that column with a non-null value.
C3_ValidCountPresent ==
  (pc = "group_column" /\ col <= Len(columns)
     /\ is_any_metric_enabled(col, UniquenessMetrics))
    => /\ IsMeasured("valid_count", col)
       /\ MeasuredValue(col, "valid_count").kind # "none"

\* C4: a zero divisor in a derived formula never ends the scan.
C4_ZeroDivisorNeverAborts ==
  ~ (pc = "failed" /\ error = "ZeroDivisionError")

\* C5: a rule that references a metric never computed for its column does not
\* end the scan.
C5_UncomputedMetricNeverAborts ==
  ~ (pc = "failed" /\ failed_in = "tests" /\ error = "NameError")

\* C6: the stages run in the fixed order, each at most once, every query,
\* append and send within the stage started last; with the warehouse name or
\* the table name unset no query is executed; after a failure nothing runs.
C6_LinearStages ==
  /\ LET stages == LogOf("stage")
     IN /\ Len(stages) <= Len(StageOrder)
        /\ \A i \in 1 .. Len(stages) : stages[i].stage = StageOrder[i]
  /\ \A i \in 1 .. Len(log) :
       log[i].ev # "stage" =>
         \E j \in 1 .. i - 1 :
           /\ log[j].ev = "stage" /\ log[j].stage = log[i].stage
           /\ \A k \in j + 1 .. i : log[k].ev # "stage"
  /\ ~ (warehouse_name /\ table_name) => LogIndices("query") = {}
  /\ error # "none" <=> pc = "failed"
  /\ pc = "failed" =>
       /\ ~ ENABLED Next
       /\ LogOf("stage")[Len(LogOf("stage"))].stage = failed_in

C6_Witness ==
  /\ pc = "done"
  /\ Len(columns) = 2
  /\ \E i \in LogIndices("query") : log[i].stage = "group_by"

SendStages == [i \in 1 .. Len(LogOf("send")) |-> LogOf("send")[i].stage]

\* C7 as stated: with a reporting sink, the schema, aggregation and group-by
\* batches are each forwarded exactly once by the time execute() returns.
C7_EveryBatchForwardedOnce ==
  (soda_client /\ pc = "done") => SendStages = <<"discover", "aggregate", "group_by">>

\* C7 amended: with a reporting sink, each non-empty batch is appended to the
\* scan result and then forwarded, exactly once and in stage order, after the
\* queries of its stage and before any query of a later stage; an empty batch
\* is neither appended nor forwarded; what was forwarded is what the scan
\* result holds.
C7_NonEmptyBatchesForwardedOnce ==
  /\ ~ soda_client => received = <<>> /\ LogIndices("send") = {}
  /\ soda_client =>
       /\ Flatten(received) = scan_result.measurements
       /\ \A b \in 1 .. Len(received) : received[b] # <<>>
       /\ Len(received) = Len(SendStages)
       /\ \A i \in LogIndices("send") :
            i > 1 /\ log[i - 1].ev = "append" /\ log[i - 1].stage = log[i].stage
       /\ \A i \in LogIndices("append") :
            i < Len(log) /\ log[i + 1].ev = "send" /\ log[i + 1].stage = log[i].stage
       /\ \A i, j \in 1 .. Len(SendStages) :
            i < j => StageNo(SendStages[i]) < StageNo(SendStages[j])
       /\ \A i \in LogIndices("send"), j \in LogIndices("query") :
            /\ j < i => StageNo(log[j].stage) <= StageNo(log[i].stage)
            /\ j > i => StageNo(log[j].stage) > StageNo(log[i].stage)
       /\ pc = "done" =>
            SendStages = <<"discover", "aggregate">>
                           \o (IF group_measurements # <<>> THEN <<"group_by">> ELSE <<>>)

C7_Witness ==
  /\ soda_client
  /\ pc = "done"
  /\ Len(received) = 3
  /\ Len(received[3]) > 1

GroupByQueries(c) ==
  { i \in LogIndices("query") : log[i].stage = "group_by" /\ log[i].col = c }
AggregationQueries == { i \in LogIndices("query") : log[i].stage = "aggregate" }

\* C8: the aggregation stage executes exactly one query whatever the columns;
\* the group-by stage issues no query for a column without a group-by metric,
\* at most four for any other, in column order.
C8_QueryCounts ==
  /\ Cardinality(AggregationQueries) <= 1
  /\ pc \in {"agg_derive", "group_start", "group_column", "run_tests", "done"}
       => Cardinality(AggregationQueries) = 1
  /\ \A c \in 1 .. Len(config) :
       /\ Cardinality(GroupByQueries(c)) <= 4
       /\ ~ is_any_metric_enabled(c, GroupByMetrics) => GroupByQueries(c) = {}
  /\ \A i, j \in LogIndices("query") :
       (log[i].stage = "group_by" /\ log[j].stage = "group_by" /\ i < j)
         => log[i].col <= log[j].col

C8_Witness ==
  /\ pc = "done"
  /\ \E c1, c2 \in 1 .. Len(columns) :
       /\ c1 < c2
       /\ Cardinality(GroupByQueries(c1)) = 4
       /\ ~ is_any_metric_enabled(c2, GroupByMetrics)

\* C9: a uniqueness emitted for a column with valid_count > 1 lies in
\* [0, 100]; it is 0 when all valid values are equal and 100 when they all
\* differ.
C9_UniquenessBounded ==
  \A i \in 1 .. Len(group_measurements) :
    LET m == group_measurements[i]
        c == m.column_name
    IN (m.metric = "uniqueness" /\ MeasuredValue(c, "valid_count").n > 1) =>
         /\ m.value.d > 0
         /\ 0 <= m.value.n /\ m.value.n <= 100 * m.value.d
         /\ Cardinality(GroupValues(c)) = 1 => m.value.n = 0
         /\ (\A v \in GroupValues(c) : Frequency(c, v) = 1) => m.value.n = 100 * m.value.d

C9_Witness ==
  \E i \in 1 .. Len(group_measurements) :
    LET m == group_measurements[i]
    IN /\ m.metric = "uniqueness"
       /\ MeasuredValue(m.column_name, "valid_count").n > 1
       /\ 0 < m.value.n /\ m.value.n < 100 * m.value.d

====
